---- MODULE Spec2Model ----
(***************************************************************************)
(* PDFScramble: the two page-reordering programs of the repository.        *)
(*                                                                         *)
(*   ManualScrambler.rearrange  (src/manual_scrambler.py)  -- Spec         *)
(*   Scrambler.make_new_pdf     (src/scrambler.py)         -- SpecScr      *)
(*                                                                         *)
(* Python lists are sequences; a Python 0-based index i is element i + 1.  *)
(***************************************************************************)
EXTENDS Integers, Sequences, FiniteSets, TLC

\* ------------------------------------------------------------------ bounds
MaxPages == 4        \* page_count of the PDF given to ManualScrambler
MaxMoves == 2        \* entries of the move mapping
NPages == 3          \* pages of the PDF given to Scrambler
MaxAdj == 1          \* entries of the manual correction mapping

VARIABLES
    \* ---- ManualScrambler.rearrange
    page_count,   \* doc.page_count
    raw,          \* the JSON mapping, as the sequence raw.items() iterates
    ri,           \* number of entries of raw already normalised
    moves,        \* list[(orig_page, after_page)]
    mi,           \* number of moves already applied
    order,        \* the working order (<<>> until line 48 creates it)
    output,       \* pages copied to new_doc, in order (<<>> until saved)
    skipped,      \* the "source absent: skip" branch (line 57) has run
    appended,     \* the "anchor not found: append" branch (line 65) has run
    pc,           \* position in rearrange
    \* ---- Scrambler.make_new_pdf
    init_pages,   \* self.init_pages
    sorted_pages, \* self.sorted_pages
    HAS_OCR,      \* the import-time capability flag
    manual_json,  \* whether make_new_pdf was given a manual_json
    pi,           \* iterations done by the current stage's loop
    adjustments,  \* the correction entries applied so far: key -> value
    out_pages,    \* original indices copied to the rearranged PDF
    spc           \* position in make_new_pdf

mvars == <<page_count, raw, ri, moves, mi, order, output, skipped, appended, pc>>
svars == <<init_pages, sorted_pages, HAS_OCR, manual_json, pi, adjustments,
           out_pages, spc>>
vars == <<mvars, svars>>

\* ------------------------------------------------- Python list primitives
\* seq.index(x): the 0-based index of the first x, or -1 for ValueError
Index(seq, x) ==
    IF \E i \in 1..Len(seq) : seq[i] = x
    THEN (CHOOSE i \in 1..Len(seq) :
              seq[i] = x /\ \A j \in 1..(i - 1) : seq[j] # x) - 1
    ELSE -1

\* seq.pop(idx) for a valid 0-based idx: seq without that element
Pop(seq, idx) ==
    [i \in 1..(Len(seq) - 1) |-> IF i <= idx THEN seq[i] ELSE seq[i + 1]]

\* seq.insert(pos, x) for 0 <= pos <= len(seq)
Insert(seq, pos, x) ==
    [i \in 1..(Len(seq) + 1) |->
        IF i <= pos THEN seq[i] ELSE IF i = pos + 1 THEN x ELSE seq[i - 1]]

\* list(range(1, n + 1))
Range1(n) == [i \in 1..n |-> i]

\* lexicographic < on equal-length tuples of integers (Python tuple compare)
RECURSIVE TupleLess(_, _)
TupleLess(a, b) ==
    IF Len(a) = 0 THEN FALSE
    ELSE IF Head(a) < Head(b) THEN TRUE
    ELSE IF Head(a) > Head(b) THEN FALSE
    ELSE TupleLess(Tail(a), Tail(b))

\* ------------------------------------------- ManualScrambler.rearrange
\* line 35 / line 37: 1 <= p <= page_count
InRange(p, n) == 1 <= p /\ p <= n

\* a self-move test that never fires
NeverSelfMove(m) == FALSE

\* line 39: orig_page == after_page
IsSelfMove(m) == m[1] = m[2]

\* the body of the normalisation loop with the self-move test first
NormalizeSelfFirst(entry, n) ==
    IF entry[1] = entry[2] THEN "skip"
    ELSE IF ~InRange(entry[1], n) THEN "raise"
    ELSE IF ~InRange(entry[2], n) THEN "raise"
    ELSE "append"

\* lines 33-42: what the normalisation loop does with one entry
Normalize(entry, n) ==
    IF ~InRange(entry[1], n) THEN "raise"
    ELSE IF ~InRange(entry[2], n) THEN "raise"
    ELSE IF IsSelfMove(entry) THEN "skip"
    ELSE "append"

\* line 45: the sort key (x[1], x[0])
MoveKey(m) == <<m[2], m[1]>>

\* list.sort(key=MoveKey): stable insertion of x into a sorted list
RECURSIVE InsertSorted(_, _)
InsertSorted(sorted, x) ==
    IF sorted = <<>> THEN <<x>>
    ELSE IF TupleLess(MoveKey(x), MoveKey(Head(sorted)))
         THEN <<x>> \o sorted
         ELSE <<Head(sorted)>> \o InsertSorted(Tail(sorted), x)

RECURSIVE SortMoves(_)
SortMoves(ms) ==
    IF ms = <<>> THEN <<>>
    ELSE InsertSorted(SortMoves(SubSeq(ms, 1, Len(ms) - 1)), ms[Len(ms)])

\* the move step with the source left in place (no pop)
MoveStepNoPop(ord, m) ==
    LET found == Index(ord, m[2])
        after_idx == IF found = -1 THEN Len(ord) - 1 ELSE found
    IN  [order |-> Insert(ord, after_idx + 1, m[1]),
         skipped |-> FALSE,
         appended |-> found = -1]

\* the move step with the source inserted in front of the anchor
MoveStepBefore(ord, m) ==
    LET popped == Pop(ord, Index(ord, m[1]))
        found == Index(popped, m[2])
        after_idx == IF found = -1 THEN Len(popped) - 1 ELSE found
    IN  [order |-> Insert(popped, after_idx, m[1]),
         skipped |-> FALSE,
         appended |-> found = -1]

\* the move step with the anchor taken as a fixed offset, not found by value
MoveStepByOffset(ord, m) ==
    LET popped == Pop(ord, Index(ord, m[1]))
        insert_pos == IF m[2] <= Len(popped) THEN m[2] ELSE Len(popped)
    IN  [order |-> Insert(popped, insert_pos, m[1]),
         skipped |-> FALSE,
         appended |-> FALSE]

\* lines 50-68: one iteration of the move loop on the list ord.
\* The result carries the new list and which defensive branch ran.
MoveStep(ord, m) ==
    LET orig_page == m[1]
        after_page == m[2]
        cur_idx == Index(ord, orig_page)
    IN  IF cur_idx = -1
        THEN [order |-> ord, skipped |-> TRUE, appended |-> FALSE]
        ELSE LET popped == Pop(ord, cur_idx)
                 found == Index(popped, after_page)
                 after_idx == IF found = -1 THEN Len(popped) - 1 ELSE found
                 insert_pos == after_idx + 1
             IN  [order |-> Insert(popped, insert_pos, orig_page),
                  skipped |-> FALSE,
                  appended |-> found = -1]

\* the whole move loop, lines 50-68, on a list of moves
RECURSIVE ApplyMoves(_, _)
ApplyMoves(ord, ms) ==
    IF ms = <<>> THEN ord
    ELSE ApplyMoves(MoveStep(ord, Head(ms)).order, Tail(ms))

\* the pages a JSON key or value may name: in range, and just out of range
PageVals(n) == 0..(n + 1)

\* a mapping has one entry per key
DistinctKeys(s) == \A i, j \in 1..Len(s) : i # j => s[i][1] # s[j][1]

RawMappings(n) ==
    UNION {{s \in [1..k -> PageVals(n) \X PageVals(n)] : DistinctKeys(s)}
               : k \in 0..MaxMoves}

SIdle ==
    /\ init_pages = <<>>
    /\ sorted_pages = <<>>
    /\ HAS_OCR = FALSE
    /\ manual_json = FALSE
    /\ pi = 0
    /\ adjustments = <<>>
    /\ out_pages = <<>>
    /\ spc = "idle"

\* lines 23-31: the document and the mapping are loaded, moves is empty
MInit ==
    /\ page_count \in 1..MaxPages
    /\ raw \in RawMappings(page_count)
    /\ ri = 0
    /\ moves = <<>>
    /\ mi = 0
    /\ order = <<>>
    /\ output = <<>>
    /\ skipped = FALSE
    /\ appended = FALSE
    /\ pc = "normalize"

Init == MInit /\ SIdle

\* lines 32-42: one iteration of the normalisation loop
NormalizeEntry ==
    /\ pc = "normalize"
    /\ ri < Len(raw)
    /\ LET what == Normalize(raw[ri + 1], page_count)
       IN  /\ pc' = IF what = "raise" THEN "error" ELSE pc
           /\ moves' = IF what = "append"
                       THEN Append(moves, raw[ri + 1])
                       ELSE moves
    /\ ri' = ri + 1
    /\ UNCHANGED <<page_count, raw, mi, order, output, skipped, appended>>
    /\ UNCHANGED svars

\* lines 44-48: the loop has ended; sort the moves, create the order
SortAndStart ==
    /\ pc = "normalize"
    /\ ri = Len(raw)
    /\ moves' = SortMoves(moves)
    /\ order' = Range1(page_count)
    /\ pc' = "move"
    /\ UNCHANGED <<page_count, raw, ri, mi, output, skipped, appended>>
    /\ UNCHANGED svars

\* lines 50-68: one iteration of the move loop
ApplyMove ==
    /\ pc = "move"
    /\ mi < Len(moves)
    /\ LET r == MoveStep(order, moves[mi + 1])
       IN  /\ order' = r.order
           /\ skipped' = (skipped \/ r.skipped)
           /\ appended' = (appended \/ r.appended)
    /\ mi' = mi + 1
    /\ UNCHANGED <<page_count, raw, ri, moves, output, pc>>
    /\ UNCHANGED svars

\* lines 70-78: copy the pages in the computed order and save
CopyPages ==
    /\ pc = "move"
    /\ mi = Len(moves)
    /\ output' = order
    /\ pc' = "done"
    /\ UNCHANGED <<page_count, raw, ri, moves, mi, order, skipped, appended>>
    /\ UNCHANGED svars

Next ==
    \/ NormalizeEntry
    \/ SortAndStart
    \/ ApplyMove
    \/ CopyPages

Spec == Init /\ [][Next]_vars

\* ------------------------------------------------- Scrambler.make_new_pdf
\* the chapter literal 'S' (Page.chapter: int | Literal['S']); numeric
\* chapters are the non-negative integers \d+ can yield
S == -1
\* the '$' token the text-extraction pattern accepts for 'S'
DOLLAR == -2

\* the numeric chapters and the chapter pages that appear on pages
NumChapters == {1, 2}
ChapterPages == {1, 2}

Page(index, failed, chapter, chapter_page) ==
    [index |-> index, failed |-> failed, chapter |-> chapter,
     chapter_page |-> chapter_page]

\* line 63: the (first, second) groups the text-extraction pattern can yield
TextMatches == (NumChapters \cup {S, DOLLAR}) \X ChapterPages
\* line 104: the groups the OCR pattern can yield (no '$')
OcrMatches == (NumChapters \cup {S}) \X ChapterPages
\* lines 172-173: the [chapter, chapter_page] values of a correction entry
AdjValues == (NumChapters \cup {S}) \X ChapterPages
\* the page numbers a correction key may name
AdjKeys == 0..(NPages + 1)

\* lines 79-84: the Page built from the last match of the text pattern
TextPage(i, numbs) ==
    LET first == numbs[1]
        chapter == IF first = S \/ first = DOLLAR THEN S ELSE first
    IN  Page(i, FALSE, chapter, numbs[2])

\* lines 143-149: the Page built from the last match of the OCR pattern
OcrPage(i, numbs) ==
    LET first == numbs[1]
        chapter == IF first = S THEN S ELSE first
    IN  Page(i, FALSE, chapter, numbs[2])

\* lines 185-189: replace the first element whose index is page_index
ReplaceByIndex(pages, page_index, new) ==
    LET idx == IF \E i \in 1..Len(pages) : pages[i].index = page_index
               THEN CHOOSE i \in 1..Len(pages) :
                        /\ pages[i].index = page_index
                        /\ \A j \in 1..(i - 1) : pages[j].index # page_index
               ELSE 0
    IN  IF idx = 0 THEN pages ELSE [pages EXCEPT ![idx] = new]

\* lines 169-189: one correction entry applied to the page list
ApplyAdjustment(pages, key, value) ==
    LET page_index == key - 1
    IN  ReplaceByIndex(pages, page_index,
                       Page(page_index, FALSE, value[1], value[2]))

\* a sort key that ranks 'S' by its own value instead of float("inf")
sort_key_no_inf(p) ==
    IF p.failed
    THEN <<1, 1, 0, 1, 0, p.index>>
    ELSE <<0, 0, p.chapter, 0, p.chapter_page, p.index>>

\* lines 192-196: sort_key; float("inf") is the pair <<1, 0>> and an
\* integer v the pair <<0, v>>, so that inf is above every integer
sort_key(p) ==
    IF p.failed
    THEN <<1, 1, 0, 1, 0, p.index>>
    ELSE IF p.chapter # S
         THEN <<0, 0, p.chapter, 0, p.chapter_page, p.index>>
         ELSE <<0, 1, 0, 0, p.chapter_page, p.index>>

\* sorted(pages, key=sort_key): stable insertion into a sorted list
RECURSIVE InsertPage(_, _)
InsertPage(sorted, p) ==
    IF sorted = <<>> THEN <<p>>
    ELSE IF TupleLess(sort_key(p), sort_key(Head(sorted)))
         THEN <<p>> \o sorted
         ELSE <<Head(sorted)>> \o InsertPage(Tail(sorted), p)

RECURSIVE SortPages(_)
SortPages(pages) ==
    IF pages = <<>> THEN <<>>
    ELSE InsertPage(SortPages(SubSeq(pages, 1, Len(pages) - 1)),
                    pages[Len(pages)])

MIdle ==
    /\ page_count = 0
    /\ raw = <<>>
    /\ ri = 0
    /\ moves = <<>>
    /\ mi = 0
    /\ order = <<>>
    /\ output = <<>>
    /\ skipped = FALSE
    /\ appended = FALSE
    /\ pc = "idle"

\* lines 29-32 and 7-14: the document is open, both lists are empty
SInit ==
    /\ init_pages = <<>>
    /\ sorted_pages = <<>>
    /\ HAS_OCR \in BOOLEAN
    /\ manual_json \in BOOLEAN
    /\ pi = 0
    /\ adjustments = <<>>
    /\ out_pages = <<>>
    /\ spc = "create"

InitScr == MIdle /\ SInit

\* lines 65-85: one iteration over the document, page number pi
CreatePage ==
    /\ spc = "create"
    /\ pi < NPages
    /\ \/ init_pages' = init_pages                         \* lines 69-70
       \/ init_pages' = Append(init_pages, Page(pi, TRUE, 0, 0))
       \/ \E numbs \in TextMatches :
              init_pages' = Append(init_pages, TextPage(pi, numbs))
    /\ pi' = pi + 1
    /\ UNCHANGED <<sorted_pages, HAS_OCR, manual_json, adjustments,
                   out_pages, spc>>
    /\ UNCHANGED mvars

\* lines 42-43: the document is exhausted, the OCR pass starts
CreateDone ==
    /\ spc = "create"
    /\ pi = NPages
    /\ spc' = "ocr"
    /\ pi' = 0
    /\ UNCHANGED <<init_pages, sorted_pages, HAS_OCR, manual_json,
                   adjustments, out_pages>>
    /\ UNCHANGED mvars

\* the stage make_new_pdf runs after the OCR pass (line 47)
AfterOcr == IF manual_json THEN "manual" ELSE "sort"

\* lines 100-102: no OCR capability, the pass returns at once
OcrUnavailable ==
    /\ spc = "ocr"
    /\ ~HAS_OCR
    /\ spc' = AfterOcr
    /\ UNCHANGED <<init_pages, sorted_pages, HAS_OCR, manual_json, pi,
                   adjustments, out_pages>>
    /\ UNCHANGED mvars

\* lines 107-149: one iteration over init_pages, idx = pi
OcrFailedPage ==
    /\ spc = "ocr"
    /\ HAS_OCR
    /\ pi < Len(init_pages)
    /\ LET page_el == init_pages[pi + 1]
       IN  IF ~page_el.failed
           THEN init_pages' = init_pages
           ELSE \/ init_pages' = init_pages               \* no match
                \/ \E numbs \in OcrMatches :
                       init_pages' =
                           [init_pages EXCEPT
                               ![pi + 1] = OcrPage(page_el.index, numbs)]
    /\ pi' = pi + 1
    /\ UNCHANGED <<sorted_pages, HAS_OCR, manual_json, adjustments,
                   out_pages, spc>>
    /\ UNCHANGED mvars

\* lines 151-154, 47: the OCR loop has ended
OcrDone ==
    /\ spc = "ocr"
    /\ HAS_OCR
    /\ pi = Len(init_pages)
    /\ spc' = AfterOcr
    /\ pi' = 0
    /\ UNCHANGED <<init_pages, sorted_pages, HAS_OCR, manual_json,
                   adjustments, out_pages>>
    /\ UNCHANGED mvars

\* lines 169-189: one entry of the correction mapping
ManualEntry ==
    /\ spc = "manual"
    /\ pi < MaxAdj
    /\ \E key \in AdjKeys \ DOMAIN adjustments, value \in AdjValues :
           /\ init_pages' = ApplyAdjustment(init_pages, key, value)
           /\ adjustments' =
                  [k \in DOMAIN adjustments \cup {key} |->
                      IF k = key THEN value ELSE adjustments[k]]
    /\ pi' = pi + 1
    /\ UNCHANGED <<sorted_pages, HAS_OCR, manual_json, out_pages, spc>>
    /\ UNCHANGED mvars

\* line 169: the mapping is exhausted
ManualDone ==
    /\ spc = "manual"
    /\ spc' = "sort"
    /\ UNCHANGED <<init_pages, sorted_pages, HAS_OCR, manual_json, pi,
                   adjustments, out_pages>>
    /\ UNCHANGED mvars

\* lines 191-199: _rearrange_page_list
RearrangePageList ==
    /\ spc = "sort"
    /\ sorted_pages' = SortPages(init_pages)
    /\ spc' = "copy"
    /\ UNCHANGED <<init_pages, HAS_OCR, manual_json, pi, adjustments,
                   out_pages>>
    /\ UNCHANGED mvars

\* lines 201-214: _create_rearranged_pdf
CreateRearrangedPdf ==
    /\ spc = "copy"
    /\ IF sorted_pages = <<>>
       THEN spc' = "error" /\ out_pages' = out_pages
       ELSE /\ spc' = "done"
            /\ out_pages' = [i \in 1..Len(sorted_pages) |->
                                sorted_pages[i].index]
    /\ UNCHANGED <<init_pages, sorted_pages, HAS_OCR, manual_json, pi,
                   adjustments>>
    /\ UNCHANGED mvars

NextScr ==
    \/ CreatePage
    \/ CreateDone
    \/ OcrUnavailable
    \/ OcrFailedPage
    \/ OcrDone
    \/ ManualEntry
    \/ ManualDone
    \/ RearrangePageList
    \/ CreateRearrangedPdf

SpecScr == InitScr /\ [][NextScr]_vars

\* ====================================================== properties: Spec
\* seq holds every page 1..n exactly once
IsPermutation(seq, n) ==
    /\ Len(seq) = n
    /\ \A p \in 1..n : \E i \in 1..n : seq[i] = p

\* page k sits immediately after page v in seq
ImmediatelyAfter(seq, k, v) ==
    \E i \in 1..(Len(seq) - 1) : seq[i] = v /\ seq[i + 1] = k

\* the entries of raw that are moves (not self-moves)
RawMoves == {raw[i] : i \in {j \in 1..Len(raw) : raw[j][1] # raw[j][2]}}

\* some entry of raw names a page outside [1, page_count]
HasInvalidEntry ==
    \E i \in 1..Len(raw) :
        ~(raw[i][1] \in 1..page_count /\ raw[i][2] \in 1..page_count)

\* every reordering of the sequence ms
Reorderings(ms) ==
    {[i \in 1..Len(ms) |-> ms[f[i]]] :
        f \in {g \in [1..Len(ms) -> 1..Len(ms)] :
                   \A a, b \in 1..Len(ms) : a # b => g[a] # g[b]}}

\* C1: in rearrange, the working order is a permutation of 1..N (no
\* duplicate, no missing page) when it is created, after every applied move,
\* and in the order handed to page copying.
C1_OrderIsPermutation ==
    /\ pc \in {"move", "done"} => IsPermutation(order, page_count)
    /\ pc = "done" => output = order

C1_Witness ==
    /\ pc = "done"
    /\ mi = 2
    /\ output # Range1(page_count)

\* C2: with pairwise distinct anchors and every source greater than every
\* anchor, the source of the move that is j-th by ascending anchor ends at
\* 1-based position anchor + j; for N = 30 and {20 -> 5, 30 -> 10}, page 20
\* ends at position 6 and page 30 at position 12.
C2_Precondition ==
    /\ \A m1, m2 \in RawMoves : m1 # m2 => m1[2] # m2[2]
    /\ \A m1, m2 \in RawMoves : m1[1] > m2[2]

C2_SourceLandsAtAnchorPlusRank ==
    /\ (pc = "done" /\ C2_Precondition) =>
           \A m \in RawMoves :
               LET j == Cardinality({x \in RawMoves : x[2] <= m[2]})
               IN  output[m[2] + j] = m[1]
    /\ LET ex == ApplyMoves(Range1(30), SortMoves(<<<<30, 10>>, <<20, 5>>>>))
       IN  ex[6] = 20 /\ ex[12] = 30 /\ ex[11] = 10

C2_Witness ==
    /\ pc = "done"
    /\ C2_Precondition
    /\ Cardinality(RawMoves) = 2
    /\ raw[1][2] > raw[2][2]

\* C6: if any entry of the mapping, a self-move entry included and wherever
\* it stands, names a page outside [1, N], the run ends in the error before
\* the order is created or changed and nothing is written.
C6_FailFast ==
    HasInvalidEntry =>
        /\ pc \in {"normalize", "error"}
        /\ pc = "normalize" => ri < Len(raw)
        /\ order = <<>>
        /\ mi = 0
        /\ output = <<>>

C6_Witness ==
    /\ pc = "error"
    /\ Len(raw) = 2
    /\ ri = 2
    /\ moves # <<>>
    /\ raw[2][1] = raw[2][2]

\* C8 as stated: in the final order every entry key -> value with
\* key # value has page key immediately after page value.
C8_EveryKeyAfterItsValue ==
    pc = "done" =>
        \A m \in RawMoves : ImmediatelyAfter(output, m[1], m[2])

\* C8 as amended: after each applied move key -> value the key page is
\* immediately after the value page, and it stays there as long as no later
\* applied move has the value page as its anchor or moves one of the two
\* pages.
C8_KeyAfterValueUntilDisturbed ==
    pc \in {"move", "done"} =>
        \A i \in 1..mi :
            (\A j \in (i + 1)..mi :
                 /\ moves[j][2] # moves[i][2]
                 /\ moves[j][1] # moves[i][2]
                 /\ moves[j][1] # moves[i][1])
            => ImmediatelyAfter(order, moves[i][1], moves[i][2])

C8_Witness ==
    /\ pc = "done"
    /\ mi = 2
    /\ moves[1][2] # moves[2][2]
    /\ moves[2][1] # moves[1][2]
    /\ moves[2][2] = moves[1][1]
    /\ ImmediatelyAfter(output, moves[1][1], moves[1][2])
    /\ ImmediatelyAfter(output, moves[2][1], moves[2][2])

\* C9: for a valid mapping neither defensive branch of the move loop runs:
\* the source is always present, and the anchor is always found by value.
C9_DefensiveBranchesDead ==
    ~skipped /\ ~appended

C9_Witness ==
    /\ pc = "done"
    /\ mi = 2
    /\ moves[2][2] = moves[1][1]
    /\ moves[2][1] = moves[1][2]

\* C10 as stated: with at least two moves, every other processing order of
\* the same moves gives a final arrangement different from the ascending one.
C10_EveryOtherOrderDiffers ==
    (pc = "done" /\ Len(moves) >= 2) =>
        \A ms \in Reorderings(moves) :
            ms # moves => ApplyMoves(Range1(page_count), ms) # output

\* the pages named by the moves are pairwise distinct
C10_NoSharedPage ==
    \A i, j \in 1..Len(moves) :
        i # j => {moves[i][1], moves[i][2]} \cap {moves[j][1], moves[j][2]} = {}

\* C10 as amended: the processing order matters for some move sets only.
\* Two moves that share the anchor, or of which the later one moves the
\* earlier one's anchor, give a different arrangement in the other order;
\* moves that share no page give the same arrangement in every order.
C10_OrderMattersOnlyWhenPagesShared ==
    pc = "done" =>
        /\ C10_NoSharedPage =>
               \A ms \in Reorderings(moves) :
                   ApplyMoves(Range1(page_count), ms) = output
        /\ (Len(moves) = 2 /\ (moves[1][2] = moves[2][2]
                               \/ moves[2][1] = moves[1][2])) =>
               ApplyMoves(Range1(page_count), <<moves[2], moves[1]>>) # output

C10_Witness ==
    /\ pc = "done"
    /\ Len(moves) = 2
    /\ C10_NoSharedPage
    /\ output # Range1(page_count)
    /\ ApplyMoves(Range1(page_count), <<moves[2], moves[1]>>) = output

\* =================================================== properties: SpecScr
\* the stages of make_new_pdf after _rearrange_page_list has run
Sorted == spc \in {"copy", "done", "error"}

\* the order of C3: Classified before Unclassified, numeric chapters by
\* value, 'S' after every numeric chapter, then chapter_page, then index
Before(p, q) ==
    IF p.failed # q.failed THEN q.failed
    ELSE IF p.failed THEN p.index < q.index
    ELSE IF (p.chapter = S) # (q.chapter = S) THEN q.chapter = S
    ELSE IF p.chapter # q.chapter THEN p.chapter < q.chapter
    ELSE IF p.chapter_page # q.chapter_page
         THEN p.chapter_page < q.chapter_page
    ELSE p.index < q.index

\* the elements of pages, as a set
Elements(pages) == {pages[i] : i \in 1..Len(pages)}

\* pages holds every original index 0..NPages-1 exactly once
AllPagesOnce(pages) ==
    /\ Len(pages) = NPages
    /\ \A x \in 0..(NPages - 1) : \E i \in 1..Len(pages) : pages[i].index = x

\* C3: after _rearrange_page_list, sorted_pages holds the pages of
\* init_pages in strictly ascending order of the composite key (status,
\* chapter with 'S' last, chapter_page, index); so the Unclassified pages are
\* the suffix, in their original relative order, and any two pages have a
\* fixed relative order.
C3_SortedByCompositeKey ==
    Sorted =>
        /\ Len(sorted_pages) = Len(init_pages)
        /\ Elements(sorted_pages) = Elements(init_pages)
        /\ \A i, j \in 1..Len(sorted_pages) :
               i < j =>
                   /\ Before(sorted_pages[i], sorted_pages[j])
                   /\ ~Before(sorted_pages[j], sorted_pages[i])
                   /\ sorted_pages[i].failed =>
                          /\ sorted_pages[j].failed
                          /\ sorted_pages[i].index < sorted_pages[j].index

C3_Witness ==
    /\ spc = "done"
    /\ Len(sorted_pages) = 3
    /\ sorted_pages[1].chapter = 2 /\ sorted_pages[1].chapter_page = 2
    /\ sorted_pages[1].index = 2
    /\ sorted_pages[2].chapter = S /\ sorted_pages[2].chapter_page = 1
    /\ sorted_pages[2].index = 1
    /\ sorted_pages[3].failed

\* C4: after each of _create_initial_page_list, _ocr_failed_pages and
\* _manual_page_adjustments the page list holds every original index
\* 0..N-1 exactly once, and so does sorted_pages after _rearrange_page_list:
\* a page whose text is unavailable is kept, Unclassified.
C4_EveryPageKept ==
    /\ spc # "create" => AllPagesOnce(init_pages)
    /\ Sorted => AllPagesOnce(sorted_pages)

\* the correction entry the step applies, when the step is a manual entry
NewKeys == DOMAIN adjustments' \ DOMAIN adjustments

\* C5: each stage changes only the pages it targets. An OCR step leaves
\* every Classified page unchanged, and every page when the capability is
\* missing; a correction entry for page k of 1..N leaves page k Classified
\* with the entry's value, whatever it was before, and leaves every other
\* page unchanged; the sort then works on these classifications, so a
\* corrected page is not in the Unclassified suffix.
C5_StageStep ==
    /\ spc = "ocr" =>
           /\ Len(init_pages') = Len(init_pages)
           /\ \A i \in 1..Len(init_pages) :
                  (~init_pages[i].failed \/ ~HAS_OCR) =>
                      init_pages'[i] = init_pages[i]
    /\ spc = "manual" =>
           /\ Len(init_pages') = Len(init_pages)
           /\ \A k \in NewKeys :
                  /\ k \in 1..NPages =>
                         \E i \in 1..Len(init_pages') :
                             init_pages'[i] =
                                 Page(k - 1, FALSE, adjustments'[k][1],
                                      adjustments'[k][2])
                  /\ \A i \in 1..Len(init_pages) :
                         init_pages[i].index # k - 1 =>
                             init_pages'[i] = init_pages[i]
    /\ spc = "sort" =>
           /\ Elements(sorted_pages') = Elements(init_pages)
           /\ \A k \in DOMAIN adjustments :
                  k \in 1..NPages =>
                      \E i \in 1..Len(sorted_pages') :
                          /\ sorted_pages'[i] =
                                 Page(k - 1, FALSE, adjustments[k][1],
                                      adjustments[k][2])
                          /\ \A j \in 1..(i - 1) : ~sorted_pages'[j].failed

C5_StagesChangeOnlyTheirTargets == [][C5_StageStep]_vars

\* C7: a correction entry whose page number is outside [1, N] is a fatal
\* input error, never an entry that is consumed without effect: every entry
\* the manual stage has got past names a page of the document.
C7_OutOfRangeCorrectionIsFatal ==
    \A k \in DOMAIN adjustments : k \in 1..NPages

====
